---- MODULE Spec2Model ----
(***************************************************************************)
(* Model of the tool dispatcher and session registry of the Bedrock        *)
(* knowledge-base MCP server (src/src/server.ts) together with the backend *)
(* gateway it calls (bedrock-client.ts, BedrockKnowledgeBaseClient).       *)
(*                                                                         *)
(* A call is handled by one async function.  It runs without interruption  *)
(* up to its single `await` of the gateway (action Call), and resumes when *)
(* the backend request settles (BackendResolves / BackendRejects).  Calls  *)
(* that never reach the gateway finish inside Call.                        *)
(***************************************************************************)
EXTENDS Integers, Sequences, FiniteSets, TLC

(***************************************************************************)
(* Bounds of the model.                                                    *)
(***************************************************************************)
MaxCalls == 2          \* requests received, any input (Spec)
MaxSessionCalls == 3   \* calls received, well-formed session traffic (SessionSpec)
MaxInFlight == 2       \* calls suspended at the gateway at once (SessionSpec)
MaxClock == 2          \* largest value Date.now() takes

(***************************************************************************)
(* JavaScript values: a pair <<typeof-tag, payload>>.                      *)
(***************************************************************************)
Undef == <<"undefined", "">>
Null == <<"null", "">>
Str(s) == <<"string", s>>
Num(n) == <<"number", n>>

TypeOf(v) == IF v[1] = "null" THEN "object" ELSE v[1]

\* JavaScript truthiness, as used by `!query`, `sessionId && ...`, `a || b`.
Truthy(v) ==
  CASE v[1] = "undefined" -> FALSE
    [] v[1] = "null"      -> FALSE
    [] v[1] = "string"    -> v[2] # ""
    [] v[1] = "number"    -> v[2] # 0

\* a || b
OrElse(a, b) == IF Truthy(a) THEN a ELSE b

(***************************************************************************)
(* Exceptions.  A message is a sequence of text pieces (a concatenation).  *)
(***************************************************************************)
NoError == [kind |-> "none", code |-> "", message |-> <<>>]
JsError(msg) == [kind |-> "Error", code |-> "", message |-> msg]
NonError == [kind |-> "thrown-value", code |-> "", message |-> <<>>]
McpError(code, msg) == [kind |-> "McpError", code |-> code, message |-> msg]

Contains(msg, piece) == \E i \in 1..Len(msg) : msg[i] = piece

\* error instanceof Error ? error.message : 'Unknown error'
MessageOf(e) ==
  IF e.kind \in {"Error", "McpError"} THEN e.message ELSE <<"Unknown error">>

(***************************************************************************)
(* The session registry: a Map<string, string>, kept in insertion order.   *)
(***************************************************************************)
Has(m, k) == \E i \in 1..Len(m) : m[i].id = k
Get(m, k) ==
  IF Has(m, k) THEN m[CHOOSE i \in 1..Len(m) : m[i].id = k].tok ELSE Undef
Set(m, k, v) ==
  IF Has(m, k)
    THEN [i \in 1..Len(m) |-> IF m[i].id = k THEN [id |-> k, tok |-> v] ELSE m[i]]
    ELSE Append(m, [id |-> k, tok |-> v])
Keys(m) == {m[i].id : i \in 1..Len(m)}

(***************************************************************************)
(* Inputs.  An argument bag is either missing (bag = FALSE) or an object   *)
(* whose absent keys read as undefined.                                    *)
(***************************************************************************)
ToolNames ==
  {"retrieve_knowledge", "retrieve_and_generate", "create_session", "list_sessions"}
CallNames == ToolNames \cup {"delete_everything"}

Bag(q, sid, sp, sn, mr) ==
  [bag |-> TRUE, query |-> q, sessionId |-> sid, systemPrompt |-> sp,
   sessionName |-> sn, maxResults |-> mr]
NoBag ==
  [bag |-> FALSE, query |-> Undef, sessionId |-> Undef, systemPrompt |-> Undef,
   sessionName |-> Undef, maxResults |-> Undef]

Queries == {Undef, Null, Str(""), Str("q"), Num(5)}
Handles == {Undef, Str(""), Str("energy"), Str("session_1"), Num(7)}
Limits == {Num(0), Num(50), Num(101), Str("50")}
Prompts == {Str("be brief"), Num(3)}

ArgsFor(name) ==
  CASE name = "retrieve_knowledge" ->
         {NoBag}
         \cup {Bag(q, Undef, Undef, Undef, Undef) : q \in Queries}
         \cup {Bag(Str("q"), h, Undef, Undef, Undef) : h \in Handles}
         \cup {Bag(Str("q"), Undef, Undef, Undef, n) : n \in Limits}
         \cup {Bag(Undef, Num(7), Undef, Undef, Num(0))}
    [] name = "retrieve_and_generate" ->
         {NoBag}
         \cup {Bag(q, Undef, Undef, Undef, Undef) : q \in Queries}
         \cup {Bag(Str("q"), h, Undef, Undef, Undef) : h \in Handles}
         \cup {Bag(Str("q"), Undef, p, Undef, Undef) : p \in Prompts}
         \cup {Bag(Undef, Num(7), Num(3), Undef, Undef)}
    [] name = "create_session" ->
         {NoBag} \cup {Bag(Undef, Undef, Undef, h, Undef) : h \in Handles}
    [] name = "list_sessions" ->
         {NoBag, Bag(Undef, Undef, Undef, Undef, Undef)}
    [] OTHER ->
         {NoBag, Bag(Str("q"), Undef, Undef, Undef, Undef)}

SessionToolNames == {"retrieve_and_generate", "create_session", "list_sessions"}

\* Well-formed traffic on a client-chosen handle and on generated ones.
SessionArgsFor(name) ==
  CASE name = "retrieve_and_generate" ->
         {Bag(Str("q"), h, Undef, Undef, Undef) : h \in {Undef, Str("energy")}}
    [] name = "create_session" ->
         {Bag(Undef, Undef, Undef, h, Undef) : h \in {Undef, Str("energy")}}
    [] OTHER ->
         {Bag(Undef, Undef, Undef, Undef, Undef)}

(***************************************************************************)
(* What the backend can answer.                                            *)
(***************************************************************************)
Tokens == {Undef, Str(""), Str("tok-1"), Str("tok-2")}

ItemA ==
  [text |-> Str("Test content 1"), score |-> Num(95),
   uri |-> Str("s3://bucket/doc1.pdf"), metadata |-> Str("document1")]
ItemB ==
  [text |-> Undef, score |-> Undef, uri |-> Undef, metadata |-> Undef]

RetrieveResponses ==
  {[present |-> FALSE, items |-> <<>>]}
  \cup {[present |-> TRUE, items |-> r] :
          r \in {<<>>, <<ItemB, ItemA>>}}

NoCitations == [present |-> FALSE, items |-> <<>>]
OneCitation ==
  [present |-> TRUE,
   items |-> << [text |-> Undef, start |-> Undef, end |-> Num(13),
                 refs |-> <<[text |-> Str("Reference content"), uri |-> Undef,
                             metadata |-> Undef]>>] >>]

GenerateResponses ==
  {[text |-> IF t = Str("tok-2") THEN Undef ELSE Str("r"), sessionId |-> t,
    citations |-> IF t = Str("tok-2") THEN OneCitation ELSE NoCitations] :
     t \in Tokens}

BackendErrors == {JsError(<<"ThrottlingException">>), NonError}

\* Backend failures under well-formed session traffic.
SessionBackendErrors == {JsError(<<"ThrottlingException">>)}

(***************************************************************************)
(* Backend gateway: BedrockKnowledgeBaseClient.                            *)
(***************************************************************************)
ConfigMaxResults == 10

NoRequest ==
  [op |-> "none", text |-> Undef, numberOfResults |-> 0, token |-> Undef,
   prompt |-> Undef]

\* retrieve(): the RetrieveCommandInput; nextToken is spread in only if truthy.
RetrieveInput(query, sessionId) ==
  [op |-> "retrieve", text |-> query, numberOfResults |-> ConfigMaxResults,
   token |-> IF Truthy(sessionId) THEN sessionId ELSE Undef, prompt |-> Undef]

\* retrieveAndGenerate(): the RetrieveAndGenerateCommandInput.
GenerateInput(query, sessionId, systemPrompt) ==
  [op |-> "generate", text |-> query, numberOfResults |-> ConfigMaxResults,
   token |-> IF Truthy(sessionId) THEN sessionId ELSE Undef,
   prompt |-> IF Truthy(systemPrompt) THEN systemPrompt ELSE Undef]

\* retrieve(): normalisation of the backend's answer.
RetrieveResult(response) ==
  [i \in 1..Len(response.items) |->
     [content |-> OrElse(response.items[i].text, Str("")),
      uri |-> response.items[i].uri,
      score |-> response.items[i].score,
      metadata |-> response.items[i].metadata]]

\* retrieveAndGenerate(): normalisation of the backend's answer.
GenerateResult(response) ==
  [text |-> OrElse(response.text, Str("")),
   citations |->
     [present |-> response.citations.present,
      items |->
        [i \in 1..Len(response.citations.items) |->
           [text |-> OrElse(response.citations.items[i].text, Str("")),
            start |-> OrElse(response.citations.items[i].start, Num(0)),
            end |-> OrElse(response.citations.items[i].end, Num(0)),
            refs |->
              [j \in 1..Len(response.citations.items[i].refs) |->
                 [content |-> OrElse(response.citations.items[i].refs[j].text, Str("")),
                  uri |-> response.citations.items[i].refs[j].uri,
                  metadata |-> response.citations.items[i].refs[j].metadata]]]]],
   sessionId |-> response.sessionId]

\* Variant: the cause of a failed retrieve is not reported.
RetrieveFailureOpaque(e) ==
  JsError(<<"Failed to retrieve from knowledge base: ", "Unknown error">>)

\* The catch blocks of retrieve() and retrieveAndGenerate().
RetrieveFailure(e) ==
  JsError(<<"Failed to retrieve from knowledge base: ">> \o MessageOf(e))
GenerateFailure(e) ==
  JsError(<<"Failed to retrieve and generate from knowledge base: ">> \o MessageOf(e))

(***************************************************************************)
(* Dispatcher: the CallToolRequest handler.                                *)
(***************************************************************************)
\* Destructuring `args` when the request carries no argument bag.
DestructureError(prop) ==
  JsError(<<"Cannot destructure property '", prop, "' of 'args' as it is undefined.">>)

QueryError ==
  McpError("InvalidParams", <<"Query is required and must be a string">>)

\* Variant: the message does not say which tool.
UnknownToolErrorUnnamed(name) ==
  McpError("MethodNotFound", <<"Unknown tool">>)

UnknownToolError(name) ==
  McpError("MethodNotFound", <<"Unknown tool: ", name>>)

\* if (!query || typeof query !== 'string')
BadQuery(query) == ~Truthy(query) \/ TypeOf(query) # "string"

\* Variant: a registered handle without a token is handed on itself.
ActualSessionIdOrHandle(m, sessionId) ==
  IF Truthy(sessionId) /\ Has(m, sessionId) /\ Truthy(Get(m, sessionId))
    THEN Get(m, sessionId)
    ELSE sessionId

\* Variant: the handle is handed on without consulting the registry.
ActualSessionIdUnresolved(m, sessionId) == sessionId

\* The continuation handed to the gateway by retrieve_and_generate.
ActualSessionId(m, sessionId) ==
  IF Truthy(sessionId) /\ Has(m, sessionId) THEN Get(m, sessionId) ELSE sessionId

\* `session_${Date.now()}`
NewSessionId(t) == Str("session_" \o ToString(t))

\* Variant: the result's token is stored without testing that there is one.
StoreSessionUnchecked(m, sessionId, resultSessionId, t) ==
  IF Truthy(sessionId)
    THEN Set(m, sessionId, resultSessionId)
    ELSE Set(m, NewSessionId(t), resultSessionId)

\* Variant: without a token in the response the handle is stored as its own token.
StoreSessionEcho(m, sessionId, resultSessionId, t) ==
  IF Truthy(resultSessionId)
    THEN IF Truthy(sessionId)
           THEN Set(m, sessionId, resultSessionId)
           ELSE Set(m, NewSessionId(t), resultSessionId)
    ELSE IF Truthy(sessionId) THEN Set(m, sessionId, sessionId) ELSE m

\* Variant: a handle that was reset to the empty token keeps the empty token.
StoreSessionRespectReset(m, sessionId, resultSessionId, t) ==
  IF Truthy(resultSessionId)
    THEN IF Truthy(sessionId)
           THEN IF Has(m, sessionId) /\ Get(m, sessionId) = Str("")
                  THEN m
                  ELSE Set(m, sessionId, resultSessionId)
           ELSE Set(m, NewSessionId(t), resultSessionId)
    ELSE m

\* Variant: a response without a token registers the supplied handle, empty.
StoreSessionRegisterAlways(m, sessionId, resultSessionId, t) ==
  IF Truthy(resultSessionId)
    THEN IF Truthy(sessionId)
           THEN Set(m, sessionId, resultSessionId)
           ELSE Set(m, NewSessionId(t), resultSessionId)
    ELSE IF Truthy(sessionId) /\ ~Has(m, sessionId)
           THEN Set(m, sessionId, Str(""))
           ELSE m

\* Variant: the token of the response is stored under every handle.
StoreSessionBroadcast(m, sessionId, resultSessionId, t) ==
  IF Truthy(resultSessionId)
    THEN IF Truthy(sessionId)
           THEN [i \in 1..Len(Set(m, sessionId, resultSessionId)) |->
                   [id |-> Set(m, sessionId, resultSessionId)[i].id,
                    tok |-> resultSessionId]]
           ELSE Set(m, NewSessionId(t), resultSessionId)
    ELSE m

\* Variant: a response without a token ends the session of the handle.
StoreSessionDropEmpty(m, sessionId, resultSessionId, t) ==
  IF Truthy(resultSessionId)
    THEN IF Truthy(sessionId)
           THEN Set(m, sessionId, resultSessionId)
           ELSE Set(m, NewSessionId(t), resultSessionId)
    ELSE SelectSeq(m, LAMBDA e : e.id # sessionId)

\* Variant: a handle that already holds a token keeps it (first response wins).
StoreSessionKeepFirst(m, sessionId, resultSessionId, t) ==
  IF Truthy(resultSessionId)
    THEN IF Truthy(sessionId)
           THEN IF Truthy(Get(m, sessionId)) THEN m
                ELSE Set(m, sessionId, resultSessionId)
           ELSE Set(m, NewSessionId(t), resultSessionId)
    ELSE m

\* The registry after a generate result arrives ("Store or update session ID").
StoreSession(m, sessionId, resultSessionId, t) ==
  IF Truthy(resultSessionId)
    THEN IF Truthy(sessionId)
           THEN Set(m, sessionId, resultSessionId)
           ELSE Set(m, NewSessionId(t), resultSessionId)
    ELSE m

\* Variant: the handle is always generated, a supplied name is ignored.
CreatedSessionIdGenerated(sessionName, t) == NewSessionId(t)

\* The registry after create_session.
CreatedSessionId(sessionName, t) == OrElse(sessionName, NewSessionId(t))

\* Variant: an existing handle is left as it is (create only if absent).
CreateSessionIfAbsent(m, sessionName, t) ==
  IF Has(m, CreatedSessionId(sessionName, t))
    THEN m
    ELSE Set(m, CreatedSessionId(sessionName, t), Str(""))

CreateSession(m, sessionName, t) == Set(m, CreatedSessionId(sessionName, t), Str(""))

\* Variant: no catch block, whatever was raised leaves the handler.
CatchNothing(name, e) == e

\* Variant: every exception is wrapped, typed ones included.
CatchWrapAll(name, e) ==
  McpError("InternalError",
           <<"Error executing tool ", name, ": ">> \o MessageOf(e))

\* The catch block of the handler.
Catch(name, e) ==
  IF e.kind = "McpError"
    THEN e
    ELSE McpError("InternalError",
                  <<"Error executing tool ", name, ": ">> \o MessageOf(e))

(***************************************************************************)
(* The capability catalog: name, declared properties and required ones.    *)
(***************************************************************************)
Property(name, type) == [name |-> name, type |-> type, range |-> <<>>]
RangedProperty(name, type, minimum, maximum) ==
  [name |-> name, type |-> type, range |-> <<minimum, maximum>>]

ToolCatalog ==
  << [name |-> "retrieve_knowledge",
      properties |-> << Property("query", "string"),
                        Property("sessionId", "string"),
                        RangedProperty("maxResults", "number", 1, 100) >>,
      required |-> <<"query">>],
     [name |-> "retrieve_and_generate",
      properties |-> << Property("query", "string"),
                        Property("sessionId", "string"),
                        Property("systemPrompt", "string") >>,
      required |-> <<"query">>],
     [name |-> "create_session",
      properties |-> << Property("sessionName", "string") >>,
      required |-> <<>>],
     [name |-> "list_sessions", properties |-> <<>>, required |-> <<>>] >>

CatalogEnvelope == [type |-> "tools", tools |-> ToolCatalog]

(***************************************************************************)
(* Response shaping: the objects handed to JSON.stringify.                 *)
(***************************************************************************)
NoEnvelope == [type |-> "none"]

\* Variant: the results are numbered from the last one back.
RetrieveEnvelopeReversed(query, results) ==
  [type |-> "text", query |-> query,
   results |->
     [i \in 1..Len(results) |->
        [rank |-> i, content |-> results[Len(results) + 1 - i].content,
         score |-> results[Len(results) + 1 - i].score,
         source |-> OrElse(results[Len(results) + 1 - i].uri, Str("Unknown")),
         metadata |-> results[Len(results) + 1 - i].metadata]],
   totalResults |-> Len(results)]

RetrieveEnvelope(query, results) ==
  [type |-> "text", query |-> query,
   results |->
     [i \in 1..Len(results) |->
        [rank |-> i, content |-> results[i].content, score |-> results[i].score,
         source |-> OrElse(results[i].uri, Str("Unknown")),
         metadata |-> results[i].metadata]],
   totalResults |-> Len(results)]

GenerateEnvelope(query, result) ==
  [type |-> "text", query |-> query, response |-> result.text,
   sessionId |-> result.sessionId,
   citations |->
     [present |-> result.citations.present,
      items |->
        [i \in 1..Len(result.citations.items) |->
           [id |-> i, text |-> result.citations.items[i].text,
            start |-> result.citations.items[i].start,
            end |-> result.citations.items[i].end,
            sources |->
              [j \in 1..Len(result.citations.items[i].refs) |->
                 [content |-> result.citations.items[i].refs[j].content,
                  source |-> OrElse(result.citations.items[i].refs[j].uri, Str("Unknown")),
                  metadata |-> result.citations.items[i].refs[j].metadata]]]]]]

CreateEnvelope(sessionId) ==
  [type |-> "text", sessionId |-> sessionId,
   message |-> "Session created successfully"]

\* Variant: only the sessions that hold a token are listed.
ListEnvelopeActiveOnly(m) ==
  LET active == SelectSeq(m, LAMBDA e : Truthy(e.tok))
  IN [type |-> "text",
      sessions |->
        [i \in 1..Len(active) |->
           [sessionId |-> active[i].id, bedrockSessionId |-> active[i].tok,
            active |-> TRUE]],
      totalSessions |-> Len(active)]

ListEnvelope(m) ==
  [type |-> "text",
   sessions |->
     [i \in 1..Len(m) |->
        [sessionId |-> m[i].id, bedrockSessionId |-> OrElse(m[i].tok, Null),
         active |-> Truthy(m[i].tok)]],
   totalSessions |-> Len(m)]

(***************************************************************************)
(* The handler up to its first `await`: it throws, returns, or suspends on *)
(* a gateway request.                                                      *)
(***************************************************************************)
Throw(m, e) == [step |-> "throw", sessions |-> m, raised |-> e]
Await(cont, req) == [step |-> "await", cont |-> cont, req |-> req]
Return(m, envelope) == [step |-> "return", sessions |-> m, envelope |-> envelope]

\* Variant: the sessionId is resolved through the registry, as for generate.
RetrieveKnowledgeResolved(m, args) ==
  IF ~args.bag THEN Throw(m, DestructureError("query"))
  ELSE IF BadQuery(args.query) THEN Throw(m, QueryError)
  ELSE Await(ActualSessionId(m, args.sessionId),
             RetrieveInput(args.query, ActualSessionId(m, args.sessionId)))

RetrieveKnowledge(m, args) ==
  IF ~args.bag THEN Throw(m, DestructureError("query"))
  ELSE IF BadQuery(args.query) THEN Throw(m, QueryError)
  ELSE Await(args.sessionId, RetrieveInput(args.query, args.sessionId))

\* Variant: a supplied handle is registered before the query is validated.
RetrieveAndGenerateRegisterFirst(m, args) ==
  IF ~args.bag THEN Throw(m, DestructureError("query"))
  ELSE IF BadQuery(args.query)
    THEN Throw(IF Truthy(args.sessionId) /\ ~Has(m, args.sessionId)
                 THEN Set(m, args.sessionId, Str("")) ELSE m,
               QueryError)
  ELSE Await(ActualSessionId(m, args.sessionId),
             GenerateInput(args.query, ActualSessionId(m, args.sessionId),
                           args.systemPrompt))

RetrieveAndGenerate(m, args) ==
  IF ~args.bag THEN Throw(m, DestructureError("query"))
  ELSE IF BadQuery(args.query) THEN Throw(m, QueryError)
  ELSE Await(ActualSessionId(m, args.sessionId),
             GenerateInput(args.query, ActualSessionId(m, args.sessionId),
                           args.systemPrompt))

CreateSessionCall(m, args, t) ==
  IF ~args.bag THEN Throw(m, DestructureError("sessionName"))
  ELSE Return(CreateSession(m, args.sessionName, t),
              CreateEnvelope(CreatedSessionId(args.sessionName, t)))

ListSessions(m) == Return(m, ListEnvelope(m))

\* Variant: a failed generate request resets the session of its handle.
GatewayRejectedForgets(m, c, e) ==
  Throw(IF c.name = "retrieve_and_generate" /\ Truthy(c.args.sessionId)
             /\ Has(m, c.args.sessionId)
          THEN Set(m, c.args.sessionId, Str("")) ELSE m,
        IF c.name = "retrieve_knowledge"
          THEN RetrieveFailure(e) ELSE GenerateFailure(e))

\* Variant: a failed request is sent once more before giving up.
GatewayRejectedRetry(m, c, e) ==
  IF c.sent < 2
    THEN Await(c.cont, c.req)
    ELSE Throw(m, IF c.name = "retrieve_knowledge"
                    THEN RetrieveFailure(e) ELSE GenerateFailure(e))

\* The handler after the gateway request of call c was rejected with e: the
\* gateway wraps and rethrows, no second request is made.
GatewayRejected(m, c, e) ==
  Throw(m, IF c.name = "retrieve_knowledge"
             THEN RetrieveFailure(e) ELSE GenerateFailure(e))

\* Variant: the switch has no case for list_sessions.
HandlerStartNoList(name, args, m, t) ==
  CASE name = "retrieve_knowledge"    -> RetrieveKnowledge(m, args)
    [] name = "retrieve_and_generate" -> RetrieveAndGenerate(m, args)
    [] name = "create_session"        -> CreateSessionCall(m, args, t)
    [] OTHER                          -> Throw(m, UnknownToolError(name))

HandlerStart(name, args, m, t) ==
  CASE name = "retrieve_knowledge"    -> RetrieveKnowledge(m, args)
    [] name = "retrieve_and_generate" -> RetrieveAndGenerate(m, args)
    [] name = "create_session"        -> CreateSessionCall(m, args, t)
    [] name = "list_sessions"         -> ListSessions(m)
    [] OTHER                          -> Throw(m, UnknownToolError(name))

(***************************************************************************)
(* Start-up configuration: loadConfig() (config.ts) and ConfigSchema.       *)
(* The text of MAX_RESULTS is a sequence of characters.                    *)
(***************************************************************************)
NaN == <<"nan", 0>>
IsNaN(v) == v[1] = "nan"

Unset == [set |-> FALSE, chars |-> <<>>]
Text(chars) == [set |-> TRUE, chars |-> chars]

DigitValue(c) ==
  CASE c = "0" -> 0 [] c = "1" -> 1 [] c = "2" -> 2 [] c = "3" -> 3 [] c = "4" -> 4
    [] c = "5" -> 5 [] c = "6" -> 6 [] c = "7" -> 7 [] c = "8" -> 8 [] c = "9" -> 9
IsDigit(c) == c \in {"0", "1", "2", "3", "4", "5", "6", "7", "8", "9"}

RECURSIVE SkipSpace(_)
SkipSpace(cs) ==
  IF cs # <<>> /\ Head(cs) = " " THEN SkipSpace(Tail(cs)) ELSE cs

RECURSIVE Accumulate(_, _)
Accumulate(cs, acc) ==
  IF cs = <<>> \/ ~IsDigit(Head(cs))
    THEN acc
    ELSE Accumulate(Tail(cs), acc * 10 + DigitValue(Head(cs)))

\* parseInt(text, 10): leading blanks, a sign, then the longest run of digits.
ParseInt(cs) ==
  LET t == SkipSpace(cs)
      signed == t # <<>> /\ Head(t) \in {"-", "+"}
      u == IF signed THEN Tail(t) ELSE t
  IN IF u = <<>> \/ ~IsDigit(Head(u))
       THEN NaN
       ELSE IF signed /\ Head(t) = "-"
              THEN Num(0 - Accumulate(u, 0))
              ELSE Num(Accumulate(u, 0))

\* process.env.MAX_RESULTS ? parseInt(process.env.MAX_RESULTS, 10) : 10
RawMaxResults(v) ==
  IF v.set /\ v.chars # <<>> THEN ParseInt(v.chars) ELSE Num(10)

\* The object handed to ConfigSchema.parse.
RawConfig(env) ==
  [region |-> OrElse(env.AWS_REGION, OrElse(env.AWS_DEFAULT_REGION, Str("us-east-1"))),
   knowledgeBaseId |-> env.KNOWLEDGE_BASE_ID,
   modelArn |-> env.MODEL_ARN,
   maxResults |-> RawMaxResults(env.MAX_RESULTS),
   rerankingModelArn |-> env.RERANKING_MODEL_ARN]

\* ConfigSchema.parse: the issues, in the order of the schema's keys.
SchemaIssues(raw) ==
  (IF raw.knowledgeBaseId = Undef THEN <<"knowledgeBaseId: Required">> ELSE <<>>)
  \o (IF IsNaN(raw.maxResults)
        THEN <<"maxResults: Expected number, received nan">>
      ELSE IF raw.maxResults[2] < 1
        THEN <<"maxResults: Number must be greater than or equal to 1">>
      ELSE IF raw.maxResults[2] > 100
        THEN <<"maxResults: Number must be less than or equal to 100">>
      ELSE <<>>)

NotLoaded == [loaded |-> FALSE, ok |-> FALSE, config |-> <<>>, error |-> NoError]

LoadConfigResult(env) ==
  IF SchemaIssues(RawConfig(env)) = <<>>
    THEN [loaded |-> TRUE, ok |-> TRUE, config |-> RawConfig(env), error |-> NoError]
    ELSE [loaded |-> TRUE, ok |-> FALSE, config |-> <<>>,
          error |-> JsError(<<"Configuration validation failed:">>
                            \o SchemaIssues(RawConfig(env)))]

MaxResultsTexts ==
  {Unset, Text(<<>>), Text(<<"x">>), Text(<<"2", "5">>), Text(<<"0">>),
   Text(<<"1", "0", "1">>), Text(<<"1">>), Text(<<"1", "0", "0">>),
   Text(<<"7", "x">>), Text(<<"-", "5">>), Text(<<" ", "9">>)}

Environments ==
  [AWS_REGION : {Undef, Str(""), Str("eu-west-1")},
   AWS_DEFAULT_REGION : {Undef, Str("ap-southeast-1")},
   KNOWLEDGE_BASE_ID : {Undef, Str("test-kb-id")},
   MODEL_ARN : {Undef, Str("arn:model")},
   RERANKING_MODEL_ARN : {Undef},
   MAX_RESULTS : MaxResultsTexts]

\* The environment of the test suite: only KNOWLEDGE_BASE_ID is set.
TestEnvironment ==
  [AWS_REGION |-> Undef, AWS_DEFAULT_REGION |-> Undef,
   KNOWLEDGE_BASE_ID |-> Str("test-kb-id"), MODEL_ARN |-> Undef,
   RERANKING_MODEL_ARN |-> Undef,
   MAX_RESULTS |-> Unset]

VARIABLES
  environment, \* process.env at start-up
  startup,    \* what loadConfig() gave
  sessions,   \* BedrockKBMCPServer.sessions
  pending,    \* calls suspended at their `await` of the gateway
  last,       \* the call that finished most recently, with its outcome
  log,        \* finished create_session and successful generate calls
  now,        \* Date.now()
  started     \* number of calls received so far

vars == <<environment, startup, sessions, pending, last, log, now, started>>

(***************************************************************************)
(* Records of calls.                                                       *)
(***************************************************************************)
\* What the backend did with the request of a call, if it got one.
NoAnswer == [kind |-> "none"]
Answered(response) == [kind |-> "response", value |-> response]
Failed(e) == [kind |-> "error", value |-> e]

NoCall ==
  [id |-> 0, name |-> "", args |-> NoBag, cont |-> Undef, req |-> NoRequest,
   sent |-> 0, raised |-> NoError, error |-> NoError, ok |-> FALSE,
   envelope |-> NoEnvelope, answer |-> NoAnswer]

Finished(id, name, args, cont, req, sent, raised, envelope, answer) ==
  [id |-> id, name |-> name, args |-> args, cont |-> cont, req |-> req,
   sent |-> sent, raised |-> raised,
   error |-> IF raised = NoError THEN NoError ELSE Catch(name, raised),
   ok |-> raised = NoError, envelope |-> envelope, answer |-> answer]

\* What an observer of the boundary notes of a finished create_session or of
\* a successful generate call: the handle it concerns (the one supplied, else
\* the one generated at that instant) and the token of the response ('' for
\* create_session).  Calls are logged in the order they finished; `at` is
\* the length of the log when the call was received.
LogEntry(op, at, sid, tok, t) ==
  [op |-> op, at |-> at,
   key |-> IF Truthy(sid) THEN sid ELSE Str("session_" \o ToString(t)),
   tok |-> tok]

Init ==
  /\ environment = TestEnvironment
  /\ startup = LoadConfigResult(TestEnvironment)
  /\ sessions = <<>>
  /\ pending = {}
  /\ last = NoCall
  /\ log = <<>>
  /\ now = 1
  /\ started = 0

\* Date.now() advances.
Tick ==
  /\ now < MaxClock
  /\ now' = now + 1
  /\ UNCHANGED <<environment, startup, sessions, pending, last, log, started>>

\* Variant: a call that suspends cancels the calls already in flight.
SuspendCancelling(inflight, c) == {c}

\* The calls in flight once call c has reached its `await`.
Suspend(inflight, c) == inflight \cup {c}

\* A request arrives and its handler runs up to its `await`, or to its end.
Call(name, args) ==
  /\ started' = started + 1
  /\ LET id == started + 1
         h == HandlerStart(name, args, sessions, now)
     IN CASE h.step = "throw" ->
               /\ sessions' = h.sessions
               /\ last' = Finished(id, name, args, Undef, NoRequest, 0, h.raised, NoEnvelope,
                                   NoAnswer)
               /\ UNCHANGED <<pending, log>>
          [] h.step = "await" ->
               /\ pending' = Suspend(pending,
                    [id |-> id, at |-> Len(log), name |-> name, args |-> args,
                     cont |-> h.cont, req |-> h.req, sent |-> 1])
               /\ last' = NoCall
               /\ UNCHANGED <<sessions, log>>
          [] h.step = "return" ->
               /\ sessions' = h.sessions
               /\ last' = Finished(id, name, args, Undef, NoRequest, 0, NoError,
                                   h.envelope, NoAnswer)
               /\ log' = IF name = "create_session"
                           THEN Append(log, LogEntry("create", Len(log), args.sessionName,
                                                     Str(""), now))
                           ELSE log
               /\ UNCHANGED pending
  /\ UNCHANGED <<environment, startup, now>>

\* Variant: the calls still in flight take their continuation from the
\* registry as it is after the response was handled.
ResumedRebinding(inflight, c, m) ==
  {IF p.name = "retrieve_and_generate"
     THEN [p EXCEPT !.cont = ActualSessionId(m, p.args.sessionId),
                    !.req = GenerateInput(p.args.query,
                                          ActualSessionId(m, p.args.sessionId),
                                          p.args.systemPrompt)]
     ELSE p : p \in inflight \ {c}}

\* The calls in flight once call c has resumed and left registry m: each
\* keeps the continuation and request it made before its own `await`.
Resumed(inflight, c, m) == inflight \ {c}

\* The backend answers the request of a suspended call; the handler resumes.
BackendResolves(c, response) ==
  /\ c \in pending
  /\ IF c.name = "retrieve_knowledge"
       THEN /\ last' = Finished(c.id, c.name, c.args, c.cont, c.req, c.sent, NoError,
                                RetrieveEnvelope(c.args.query, RetrieveResult(response)),
                                Answered(response))
            /\ UNCHANGED <<sessions, log>>
       ELSE LET result == GenerateResult(response)
            IN /\ sessions' = StoreSession(sessions, c.args.sessionId,
                                           result.sessionId, now)
               /\ last' = Finished(c.id, c.name, c.args, c.cont, c.req, c.sent, NoError,
                                   GenerateEnvelope(c.args.query, result),
                                   Answered(response))
               /\ log' = Append(log, LogEntry("generate", c.at, c.args.sessionId,
                                              response.sessionId, now))
  /\ pending' = Resumed(pending, c, sessions')
  /\ UNCHANGED <<environment, startup, now, started>>

\* The backend request of a suspended call fails: the gateway's catch block
\* decides how the handler goes on, and the handler's own catch ends the call.
BackendRejects(c, e) ==
  /\ c \in pending
  /\ LET h == GatewayRejected(sessions, c, e)
     IN CASE h.step = "throw" ->
               /\ sessions' = h.sessions
               /\ pending' = pending \ {c}
               /\ last' = Finished(c.id, c.name, c.args, c.cont, c.req, c.sent,
                                   h.raised, NoEnvelope, Failed(e))
          [] h.step = "await" ->
               /\ pending' = (pending \ {c}) \cup
                    {[c EXCEPT !.cont = h.cont, !.req = h.req, !.sent = c.sent + 1]}
               /\ last' = NoCall
               /\ UNCHANGED sessions
  /\ UNCHANGED <<environment, startup, log, now, started>>

\* Variant: while a call is in flight only the retrieval tools are listed, and
\* the listing registers a session of its own.
ListToolsBusy ==
  /\ started' = started + 1
  /\ last' = Finished(started + 1, "tools/list", NoBag, Undef, NoRequest, 0, NoError,
                      [type |-> "tools",
                       tools |-> IF pending = {} THEN ToolCatalog
                                 ELSE SubSeq(ToolCatalog, 1, 2)],
                      NoAnswer)
  /\ sessions' = IF pending = {} THEN sessions ELSE Set(sessions, Str("tools"), Str(""))
  /\ UNCHANGED <<environment, startup, pending, log, now>>

\* The capability list is requested; the handler returns the fixed catalog.
ListTools ==
  /\ started' = started + 1
  /\ last' = Finished(started + 1, "tools/list", NoBag, Undef, NoRequest, 0, NoError,
                      CatalogEnvelope, NoAnswer)
  /\ UNCHANGED <<environment, startup, sessions, pending, log, now>>

Next ==
  \/ Tick
  \/ /\ started < MaxCalls
     /\ ListTools
  \/ /\ started < MaxCalls
     /\ \E name \in CallNames : \E args \in ArgsFor(name) : Call(name, args)
  \/ \E c \in pending :
       \E response \in (IF c.name = "retrieve_knowledge"
                          THEN RetrieveResponses ELSE GenerateResponses) :
         BackendResolves(c, response)
  \/ \E c \in pending : \E e \in BackendErrors : BackendRejects(c, e)

Spec == Init /\ [][Next]_vars

\* The backend settles the request of call id, one way or the other.
Settle(id) ==
  \E c \in pending :
    /\ c.id = id
    /\ \/ \E response \in (IF c.name = "retrieve_knowledge"
                              THEN RetrieveResponses ELSE GenerateResponses) :
            BackendResolves(c, response)
       \/ \E e \in SessionBackendErrors : BackendRejects(c, e)

LiveCalls ==
  {<<"retrieve_knowledge", Bag(Str("q"), Undef, Undef, Undef, Undef)>>,
   <<"retrieve_knowledge", NoBag>>,
   <<"retrieve_and_generate", Bag(Str("q"), Str("energy"), Undef, Undef, Undef)>>,
   <<"create_session", Bag(Undef, Undef, Undef, Str("energy"), Undef)>>}

\* A few calls and a backend that settles every request it receives.
LiveNext ==
  \/ /\ started < MaxCalls
     /\ \E call \in LiveCalls : Call(call[1], call[2])
  \/ \E id \in 1..MaxCalls : Settle(id)

LiveSpec ==
  /\ Init
  /\ [][LiveNext]_vars
  /\ \A id \in 1..MaxCalls : WF_vars(Settle(id))

\* Start-up alone: loadConfig() under every environment.
ConfigInit ==
  /\ environment \in Environments
  /\ startup = NotLoaded
  /\ sessions = <<>>
  /\ pending = {}
  /\ last = NoCall
  /\ log = <<>>
  /\ now = 1
  /\ started = 0

LoadConfig ==
  /\ ~startup.loaded
  /\ startup' = LoadConfigResult(environment)
  /\ UNCHANGED <<environment, sessions, pending, last, log, now, started>>

ConfigNext == LoadConfig

ConfigSpec == ConfigInit /\ [][ConfigNext]_vars

\* The same handler under well-formed session traffic, one call deeper.
SessionNext ==
  \/ Tick
  \/ /\ started < MaxSessionCalls
     /\ Cardinality(pending) < MaxInFlight
     /\ \E name \in SessionToolNames :
          \E args \in SessionArgsFor(name) : Call(name, args)
  \/ \E c \in pending : \E response \in GenerateResponses :
       BackendResolves(c, response)
  \/ \E c \in pending : \E e \in SessionBackendErrors : BackendRejects(c, e)

SessionSpec == Init /\ [][SessionNext]_vars

(***************************************************************************)
(* Reading the log.                                                        *)
(***************************************************************************)
Last(S) == CHOOSE j \in S : \A k \in S : k <= j
IsGenerate(c) == c.name = "retrieve_and_generate"

\* Logged events that concern handle h, and those among them that write it.
About(h, n) == {j \in 1..n : log[j].key = h}
Generated(h) == {j \in 1..Len(log) : log[j].key = h /\ log[j].op = "generate"}
Writes(h) ==
  {j \in 1..Len(log) :
     log[j].key = h /\ (log[j].op = "create" \/ Truthy(log[j].tok))}

OneEntryPerHandle ==
  \A i, j \in 1..Len(sessions) : sessions[i].id = sessions[j].id => i = j

(***************************************************************************)
(* C1.  Session update: once a retrieve_and_generate call with sessionId h *)
(* has succeeded with a response carrying token t, the registry maps h to  *)
(* t; and a retrieve_and_generate call with sessionId h received when that *)
(* response is the latest event on h hands t to the gateway as the         *)
(* continuation.                                                           *)
(***************************************************************************)
C1_SessionUpdate ==
  /\ (/\ last.ok
      /\ IsGenerate(last)
      /\ Truthy(last.args.sessionId)
      /\ Truthy(log[Len(log)].tok))
       => Get(sessions, last.args.sessionId) = log[Len(log)].tok
  /\ \A c \in pending :
       (/\ IsGenerate(c)
        /\ Truthy(c.args.sessionId)
        /\ About(c.args.sessionId, c.at) # {}
        /\ log[Last(About(c.args.sessionId, c.at))].op = "generate"
        /\ Truthy(log[Last(About(c.args.sessionId, c.at))].tok))
         => /\ c.cont = log[Last(About(c.args.sessionId, c.at))].tok
            /\ c.req.token = c.cont

\* A second call on "energy" is at the gateway with the token of the first.
C1_Witness ==
  \E c \in pending :
    /\ IsGenerate(c)
    /\ c.args.sessionId = Str("energy")
    /\ c.at > 0
    /\ log[c.at].op = "generate"
    /\ log[c.at].key = Str("energy")
    /\ log[c.at].tok = Str("tok-1")
    /\ c.cont = Str("tok-1")

(***************************************************************************)
(* C2.  A retrieve_and_generate call whose sessionId is not in the         *)
(* registry hands the gateway no continuation (undefined), not the handle  *)
(* the client supplied.                                                    *)
(***************************************************************************)
C2_NoContinuationOnMiss ==
  \A c \in pending :
    (IsGenerate(c) /\ Truthy(c.args.sessionId) /\ ~Has(sessions, c.args.sessionId))
      => c.cont = Undef

(***************************************************************************)
(* C3.  As claimed: every handle in the registry has exactly one stored    *)
(* token, the token of the most recently completed successful generate     *)
(* response for that handle.                                               *)
(***************************************************************************)
C3_MostRecentResponse ==
  /\ OneEntryPerHandle
  /\ \A i \in 1..Len(sessions) :
       /\ Generated(sessions[i].id) # {}
       /\ sessions[i].tok = log[Last(Generated(sessions[i].id))].tok

(***************************************************************************)
(* C3, amended.  Every handle in the registry has exactly one stored       *)
(* token: the one written by the latest event that writes the handle,      *)
(* where a successful generate response carrying a token writes that token *)
(* and a create_session for the handle writes the empty token.             *)
(***************************************************************************)
C3_LastWriteWins ==
  /\ OneEntryPerHandle
  /\ \A i \in 1..Len(sessions) :
       /\ Writes(sessions[i].id) # {}
       /\ sessions[i].tok = log[Last(Writes(sessions[i].id))].tok

\* "energy" received a token and was reset by a later create_session.
C3_Witness ==
  \E j, k \in 1..Len(log) :
    /\ j < k
    /\ log[j].op = "generate" /\ log[j].key = Str("energy") /\ Truthy(log[j].tok)
    /\ log[k].op = "create" /\ log[k].key = Str("energy")
    /\ k = Last(Writes(Str("energy")))
    /\ Get(sessions, Str("energy")) = Str("")

(***************************************************************************)
(* C4.  As claimed: the token stored for a handle already in the registry  *)
(* changes only in a step in which a successful generate response that     *)
(* carries a token arrives.                                                *)
(***************************************************************************)
C4_OnlyGenerateWrites ==
  [][\A i \in 1..Len(sessions) :
       Get(sessions', sessions[i].id) # sessions[i].tok
         => /\ Len(log') = Len(log) + 1
            /\ log'[Len(log')].op = "generate"
            /\ Truthy(log'[Len(log')].tok)]_vars

(***************************************************************************)
(* C4, amended.  The token stored for a handle already in the registry     *)
(* changes only in a step in which a successful generate response carrying *)
(* a token arrives for that handle (the token becomes that of the          *)
(* response) or a create_session allocating that handle runs (the token    *)
(* becomes empty); list_sessions, retrieve_knowledge, failed calls and     *)
(* responses without a token change no stored token.                       *)
(***************************************************************************)
C4_TokenFrame ==
  [][\A i \in 1..Len(sessions) :
       Get(sessions', sessions[i].id) # sessions[i].tok
         => /\ Len(log') = Len(log) + 1
            /\ log'[Len(log')].key = sessions[i].id
            /\ log'[Len(log')].op = "create" \/ Truthy(log'[Len(log')].tok)
            /\ Get(sessions', sessions[i].id) = log'[Len(log')].tok]_vars

\* A retrieve_knowledge call on "energy" has finished and the token stands.
C4_Witness ==
  /\ last.name = "retrieve_knowledge"
  /\ last.sent = 1
  /\ last.args.sessionId = Str("energy")
  /\ Get(sessions, Str("energy")) = Str("tok-1")

(***************************************************************************)
(* C5.  When two retrieve_and_generate calls on the same handle were in    *)
(* flight at the same time and both succeeded with tokens, the token       *)
(* stored once both are complete is that of the response that arrived      *)
(* last, whichever call was received first.                                *)
(***************************************************************************)
C5_LastResponseWins ==
  \A j, k \in 1..Len(log) :
    (/\ j < k
     /\ log[j].op = "generate" /\ log[k].op = "generate"
     /\ log[j].key = log[k].key
     /\ Truthy(log[j].tok) /\ Truthy(log[k].tok)
     /\ log[k].at < j
     /\ k = Last(Writes(log[k].key)))
      => Get(sessions, log[k].key) = log[k].tok

\* The call received first was answered last, and its token is the one kept.
C5_Witness ==
  \E j, k \in 1..Len(log) :
    /\ j < k
    /\ log[j].op = "generate" /\ log[k].op = "generate"
    /\ log[j].key = Str("energy") /\ log[k].key = Str("energy")
    /\ log[j].tok = Str("tok-2") /\ log[k].tok = Str("tok-1")
    /\ log[k].at < j
    /\ log[k].at < log[j].at
    /\ k = Len(log)
    /\ Get(sessions, Str("energy")) = Str("tok-1")

(***************************************************************************)
(* C6.  A call whose name is not in the catalog fails with MethodNotFound  *)
(* and a message containing the name; it reaches no gateway request and    *)
(* leaves the registry as it was.                                          *)
(***************************************************************************)
C6_UnknownTool ==
  [][started' = started + 1
       => /\ \A c \in pending' \ pending : c.name \in ToolNames
          /\ (last'.id = started' /\ last'.name \in CallNames \ ToolNames)
               => /\ ~last'.ok
                  /\ last'.error.code = "MethodNotFound"
                  /\ Contains(last'.error.message, last'.name)
                  /\ last'.sent = 0
                  /\ pending' = pending
                  /\ sessions' = sessions]_vars

\* An unknown tool was refused while the registry held a session.
C6_Witness ==
  /\ last.name = "delete_everything"
  /\ last.error.code = "MethodNotFound"
  /\ sessions # <<>>

(***************************************************************************)
(* C7.  For retrieve_knowledge and retrieve_and_generate, a call whose     *)
(* query is absent, empty or not a string fails with InvalidParams, and no *)
(* gateway request is made for it.                                         *)
(***************************************************************************)
QueryMissing(args) ==
  \/ ~args.bag
  \/ args.query[1] # "string"
  \/ args.query = Str("")

C7_QueryRequired ==
  /\ \A c \in pending : ~QueryMissing(c.args)
  /\ (/\ last.name \in {"retrieve_knowledge", "retrieve_and_generate"}
      /\ QueryMissing(last.args))
       => last.error.code = "InvalidParams" /\ last.sent = 0

(***************************************************************************)
(* C8.  retrieve_knowledge with a valid query and a maxResults outside     *)
(* 1..100 fails with InvalidParams (so it never reaches the gateway); with *)
(* maxResults inside 1..100 it succeeds once the backend responds.         *)
(***************************************************************************)
IsNumber(v) == v[1] = "number"
LimitOutOfRange(v) == IsNumber(v) /\ (v[2] < 1 \/ v[2] > 100)

C8_LimitBounds ==
  /\ \A c \in pending :
       c.name = "retrieve_knowledge" => ~LimitOutOfRange(c.args.maxResults)
  /\ (/\ last.name = "retrieve_knowledge"
      /\ ~QueryMissing(last.args)
      /\ LimitOutOfRange(last.args.maxResults))
       => last.error.code = "InvalidParams"
  /\ (/\ last.name = "retrieve_knowledge"
      /\ ~QueryMissing(last.args)
      /\ IsNumber(last.args.maxResults)
      /\ ~LimitOutOfRange(last.args.maxResults)
      /\ last.raised.kind # "Error")
       => last.ok

(***************************************************************************)
(* C9.  An optional argument that is present but not of its declared type  *)
(* (sessionId, systemPrompt, sessionName not a string; maxResults not a    *)
(* number) makes the call fail with InvalidParams before any gateway       *)
(* request or registry write.                                              *)
(***************************************************************************)
OptionalOk(v, type) == v = Undef \/ v[1] = type

WellTyped(name, args) ==
  CASE name = "retrieve_knowledge" ->
         OptionalOk(args.sessionId, "string") /\ OptionalOk(args.maxResults, "number")
    [] name = "retrieve_and_generate" ->
         OptionalOk(args.sessionId, "string") /\ OptionalOk(args.systemPrompt, "string")
    [] name = "create_session" -> OptionalOk(args.sessionName, "string")
    [] OTHER -> TRUE

C9_OptionalTypes ==
  /\ \A c \in pending : WellTyped(c.name, c.args)
  /\ (last.name \in ToolNames /\ last.args.bag /\ ~WellTyped(last.name, last.args))
       => last.error.code = "InvalidParams" /\ last.sent = 0

(***************************************************************************)
(* C10.  An exception raised while a call is handled that is not a typed   *)
(* dispatch error comes out as InternalError with a message containing the *)
(* operation name and ending in the original message; one that already is  *)
(* a typed dispatch error comes out unchanged.                             *)
(***************************************************************************)
EndsWith(msg, tail) ==
  /\ Len(tail) <= Len(msg)
  /\ SubSeq(msg, Len(msg) - Len(tail) + 1, Len(msg)) = tail

C10_ErrorWrapping ==
  last.raised # NoError
    => IF last.raised.kind = "McpError"
         THEN last.error = last.raised
         ELSE /\ last.raised.kind = "Error"
              /\ last.error.kind = "McpError"
              /\ last.error.code = "InternalError"
              /\ Contains(last.error.message, last.name)
              /\ Len(last.raised.message) > 0
              /\ EndsWith(last.error.message, last.raised.message)

\* A throttled retrieve came out as InternalError naming tool and cause.
C10_Witness ==
  /\ last.name = "retrieve_knowledge"
  /\ last.sent = 1
  /\ last.error.code = "InternalError"
  /\ Contains(last.error.message, "ThrottlingException")
  /\ Contains(last.error.message, "retrieve_knowledge")

(***************************************************************************)
(* C11.  Every call ends in exactly one outcome: a success envelope, or an *)
(* error of kind InvalidParams, MethodNotFound or InternalError.  No other *)
(* kind of error leaves the handler (a call without argument bag           *)
(* included), no envelope comes with an error, and a call that has ended   *)
(* is not also waiting for the backend.                                    *)
(***************************************************************************)
ErrorKinds == {"InvalidParams", "MethodNotFound", "InternalError"}

C11_OneOutcome ==
  last.name \in CallNames
    => /\ IF last.ok
            THEN last.error = NoError /\ last.envelope.type = "text"
            ELSE /\ last.error.kind = "McpError"
                 /\ last.error.code \in ErrorKinds
                 /\ last.envelope.type = "none"
       /\ \A c \in pending : c.id # last.id

\* create_session without an argument bag ended as InternalError while
\* another call was waiting for the backend.
C11_Witness ==
  /\ last.name = "create_session"
  /\ ~last.args.bag
  /\ last.error.code = "InternalError"
  /\ pending # {}

(***************************************************************************)
(* C12.  When the backend request of a retrieve_knowledge or               *)
(* retrieve_and_generate call fails with message m, the gateway raises an  *)
(* error whose message is the fixed prefix of that operation followed by   *)
(* m, and the call ends as InternalError with a message that ends in m; it *)
(* never ends in a success envelope.                                       *)
(***************************************************************************)
FailurePrefix(name) ==
  IF name = "retrieve_knowledge"
    THEN "Failed to retrieve from knowledge base: "
    ELSE "Failed to retrieve and generate from knowledge base: "

C12_BackendFailure ==
  (last.answer.kind = "error" /\ last.answer.value.kind = "Error")
    => /\ last.raised.kind = "Error"
       /\ last.raised.message = <<FailurePrefix(last.name)>> \o last.answer.value.message
       /\ ~last.ok
       /\ last.envelope.type = "none"
       /\ last.error.kind = "McpError"
       /\ last.error.code = "InternalError"
       /\ EndsWith(last.error.message, last.answer.value.message)

\* A throttled retrieve_knowledge ended as InternalError.
C12_Witness ==
  /\ last.name = "retrieve_knowledge"
  /\ last.answer = Failed(JsError(<<"ThrottlingException">>))
  /\ last.error.code = "InternalError"

(***************************************************************************)
(* C13.  No retry: a retrieve_knowledge or retrieve_and_generate call has  *)
(* sent at most one backend request when it ends, whether the request      *)
(* succeeded or failed, and exactly one while it waits; create_session,    *)
(* list_sessions and the capability list send none.                        *)
(***************************************************************************)
C13_NoRetry ==
  /\ \A c \in pending : c.sent = 1
  /\ last.sent <= 1
  /\ last.answer.kind # "none" => last.sent = 1
  /\ last.name \in {"create_session", "list_sessions", "tools/list"}
       => last.sent = 0 /\ last.req = NoRequest

\* A retrieve_and_generate call ended on the failure of its only request.
C13_Witness ==
  /\ last.name = "retrieve_and_generate"
  /\ last.answer.kind = "error"
  /\ last.sent = 1

(***************************************************************************)
(* C14.  A call that fails with InvalidParams leaves the registry exactly  *)
(* as it was and does not touch any other call: the calls in flight keep   *)
(* their request and continuation, and the record of finished session      *)
(* operations is unchanged.                                                *)
(***************************************************************************)
C14_InvalidParamsFrame ==
  [][(last' # last /\ last'.error.code = "InvalidParams")
       => /\ sessions' = sessions
          /\ pending' = pending
          /\ log' = log]_vars

\* retrieve_and_generate with a handle but no query was refused while
\* another call was in flight.
C14_Witness ==
  /\ last.name = "retrieve_and_generate"
  /\ last.error.code = "InvalidParams"
  /\ Truthy(last.args.sessionId)
  /\ pending # {}

(***************************************************************************)
(* C15.  retrieve_knowledge is stateless with respect to sessions: the     *)
(* sessionId argument goes to the backend retrieve request as it is, with  *)
(* no lookup in the registry, and no step of a retrieve_knowledge call     *)
(* (start, success or failure) changes the registry.                       *)
(***************************************************************************)
IsRetrieve(c) == c.name = "retrieve_knowledge"

C15_RetrieveStateless ==
  [][/\ \A c \in pending' \ pending :
          IsRetrieve(c)
            => /\ c.cont = c.args.sessionId
               /\ c.req.token = (IF Truthy(c.args.sessionId)
                                   THEN c.args.sessionId ELSE Undef)
               /\ sessions' = sessions
     /\ (last' # last /\ IsRetrieve(last'))
          => /\ sessions' = sessions
             /\ log' = log
             /\ last'.sent > 0 => last'.cont = last'.args.sessionId]_vars

\* A retrieve on the registered handle "energy" is at the backend with
\* "energy" itself as the continuation.
C15_Witness ==
  /\ Has(sessions, Str("energy"))
  /\ \E c \in pending :
       /\ IsRetrieve(c)
       /\ c.args.sessionId = Str("energy")
       /\ c.req.token = Str("energy")
       /\ Get(sessions, Str("energy")) # Str("energy")

(***************************************************************************)
(* C16.  As claimed: when a retrieve_and_generate call without sessionId   *)
(* gets a response with token t, the registry gains one entry, under a     *)
(* handle it did not hold before, that maps to t, and the older entries    *)
(* stay; the envelope's sessionId is t and not that handle; and in every   *)
(* retrieve_and_generate response the sessionId field is the token of the  *)
(* backend response.                                                       *)
(***************************************************************************)
GainsEntry(m, n, tok) ==
  /\ Len(n) = Len(m) + 1
  /\ SubSeq(n, 1, Len(m)) = m
  /\ ~Has(m, n[Len(n)].id)
  /\ n[Len(n)].tok = tok

C16_ImplicitSession ==
  [][(last' # last /\ IsGenerate(last') /\ last'.ok)
       => /\ last'.envelope.sessionId = last'.answer.value.sessionId
          /\ (~Truthy(last'.args.sessionId) /\ Truthy(last'.answer.value.sessionId))
               => /\ GainsEntry(sessions, sessions', last'.answer.value.sessionId)
                  /\ last'.envelope.sessionId # sessions'[Len(sessions')].id]_vars

(***************************************************************************)
(* C17.  create_session with a name n succeeds, returns {sessionId: n,     *)
(* message: 'Session created successfully'} and leaves the registry        *)
(* mapping n to the empty token, whether n was registered before or not    *)
(* and whatever token it held.  A list_sessions taken while the latest     *)
(* write on a handle is a create_session reports it with active false and  *)
(* no token; one taken after a generate response stored a token reports    *)
(* it active.                                                              *)
(***************************************************************************)
C17_CreateResets ==
  /\ (last.name = "create_session" /\ last.args.bag /\ Truthy(last.args.sessionName))
       => /\ last.ok
          /\ last.envelope.sessionId = last.args.sessionName
          /\ last.envelope.message = "Session created successfully"
          /\ Has(sessions, last.args.sessionName)
          /\ Get(sessions, last.args.sessionName) = Str("")
          /\ OneEntryPerHandle
  /\ (last.name = "list_sessions" /\ last.ok)
       => \A i \in 1..Len(last.envelope.sessions) :
            LET e == last.envelope.sessions[i]
                w == Writes(e.sessionId)
            IN /\ w # {}
               /\ e.active = (log[Last(w)].op = "generate")
               /\ log[Last(w)].op = "create" => e.bedrockSessionId = Null

\* "energy" held a token, was created again, and is listed as not active.
C17_Witness ==
  /\ last.name = "list_sessions"
  /\ \E i \in 1..Len(last.envelope.sessions) :
       /\ last.envelope.sessions[i].sessionId = Str("energy")
       /\ last.envelope.sessions[i].active = FALSE
  /\ \E j, k \in 1..Len(log) :
       /\ j < k
       /\ log[j].op = "generate" /\ log[j].key = Str("energy") /\ Truthy(log[j].tok)
       /\ log[k].op = "create" /\ log[k].key = Str("energy")

(***************************************************************************)
(* C18.  As claimed: a create_session call without a name, and a           *)
(* retrieve_and_generate call without sessionId whose response carries a   *)
(* token, allocate the handle 'session_' + digits that the registry does   *)
(* not hold yet: the registry gains an entry and keeps the older ones.     *)
(***************************************************************************)
Allocates(c) ==
  /\ c.ok
  /\ \/ c.name = "create_session" /\ ~Truthy(c.args.sessionName)
     \/ /\ IsGenerate(c)
        /\ ~Truthy(c.args.sessionId)
        /\ Truthy(c.answer.value.sessionId)

C18_UniqueHandles ==
  [][(last' # last /\ Allocates(last'))
       => /\ GainsEntry(sessions, sessions',
                        IF IsGenerate(last') THEN last'.answer.value.sessionId
                                             ELSE Str(""))
          /\ sessions'[Len(sessions')].id = NewSessionId(now)]_vars

(***************************************************************************)
(* C19.  list_sessions returns one entry per registry entry, none left     *)
(* out, in insertion order (the order in which the handles were first      *)
(* written), each with active true exactly when the stored token is        *)
(* non-empty and the token reported as null when it is empty, and a count  *)
(* equal to the number of registry entries; the registry is unchanged.     *)
(***************************************************************************)
FirstWrite(h) == CHOOSE j \in Writes(h) : \A k \in Writes(h) : j <= k

C19_ListSessions ==
  [][(last' # last /\ last'.name = "list_sessions")
       => /\ last'.ok
          /\ sessions' = sessions
          /\ last'.envelope.totalSessions = Len(sessions)
          /\ Len(last'.envelope.sessions) = Len(sessions)
          /\ Keys(sessions) = {h \in {log[j].key : j \in 1..Len(log)} : Writes(h) # {}}
          /\ \A i \in 1..Len(sessions) :
               LET e == last'.envelope.sessions[i]
               IN /\ e.sessionId = sessions[i].id
                  /\ e.active = (sessions[i].tok # Str(""))
                  /\ e.bedrockSessionId =
                       (IF sessions[i].tok = Str("") THEN Null ELSE sessions[i].tok)
                  /\ \A k \in 1..Len(sessions) :
                       i < k => FirstWrite(sessions[i].id) < FirstWrite(sessions[k].id)]_vars

\* Two sessions are listed, the older without a token, the newer with one.
C19_Witness ==
  /\ last.name = "list_sessions"
  /\ last.envelope.totalSessions = 2
  /\ last.envelope.sessions[1].active = FALSE
  /\ last.envelope.sessions[2].active = TRUE

(***************************************************************************)
(* C20.  For a backend retrieve response with n results the                *)
(* retrieve_knowledge output has totalResults = n and n results in the     *)
(* same order: the i-th has rank i and the content and score of the i-th   *)
(* backend result (an absent text reads as ''), and its source is          *)
(* 'Unknown' exactly when that result has no locator URI.                  *)
(***************************************************************************)
C20_RankAssignment ==
  (IsRetrieve(last) /\ last.ok)
    => /\ last.answer.kind = "response"
       /\ LET items == last.answer.value.items
              out == last.envelope.results
          IN /\ last.envelope.totalResults = Len(items)
             /\ Len(out) = Len(items)
             /\ \A i \in 1..Len(items) :
                  /\ out[i].rank = i
                  /\ out[i].content =
                       (IF items[i].text = Undef THEN Str("") ELSE items[i].text)
                  /\ out[i].score = items[i].score
                  /\ out[i].metadata = items[i].metadata
                  /\ (out[i].source = Str("Unknown")) <=> (items[i].uri = Undef)
                  /\ out[i].source # Str("Unknown") => out[i].source = items[i].uri

\* Two results came back, the first without text, score or locator.
C20_Witness ==
  /\ IsRetrieve(last)
  /\ last.ok
  /\ last.envelope.totalResults = 2
  /\ last.envelope.results[1].source = Str("Unknown")
  /\ last.envelope.results[2].rank = 2
  /\ last.envelope.results[2].score = Num(95)

(***************************************************************************)
(* C21.  Catalog/dispatch parity: the names in the capability list are     *)
(* exactly the names the dispatcher routes.  A call on a listed name with  *)
(* minimally valid arguments does not fail with MethodNotFound (it fails   *)
(* with no typed error at all), and a call fails with MethodNotFound       *)
(* exactly when its name is not listed.                                    *)
(***************************************************************************)
Listed(catalog) == {catalog[i].name : i \in 1..Len(catalog)}

\* The required properties of the descriptor are strings, nothing else is given.
MinimallyValid(descriptor, args) ==
  /\ args.bag
  /\ args.query = (IF \E i \in 1..Len(descriptor.required) :
                         descriptor.required[i] = "query"
                     THEN Str("q") ELSE Undef)
  /\ args.sessionId = Undef /\ args.systemPrompt = Undef
  /\ args.sessionName = Undef /\ args.maxResults = Undef

C21_CatalogParity ==
  /\ last.name = "tools/list"
       => /\ Listed(last.envelope.tools) = ToolNames
          /\ \A i, j \in 1..Len(last.envelope.tools) :
               last.envelope.tools[i].name = last.envelope.tools[j].name => i = j
  /\ last.name \in CallNames
       => /\ (last.error.code = "MethodNotFound") <=> (last.name \notin Listed(ToolCatalog))
          /\ \A i \in 1..Len(ToolCatalog) :
               (last.name = ToolCatalog[i].name /\ MinimallyValid(ToolCatalog[i], last.args))
                 => last.raised.kind # "McpError"
  /\ \A c \in pending : c.name \in Listed(ToolCatalog)

\* list_sessions, the last name of the catalog, was called with an empty
\* argument object and answered.
C21_Witness ==
  /\ last.name = ToolCatalog[Len(ToolCatalog)].name
  /\ MinimallyValid(ToolCatalog[Len(ToolCatalog)], last.args)
  /\ last.ok

(***************************************************************************)
(* C22.  The capability list is pure: whatever calls came before or are in *)
(* flight, it returns the same descriptors in the same order, and the      *)
(* request changes neither the registry nor any call in flight.            *)
(***************************************************************************)
C22_PureListing ==
  [][(last' # last /\ last'.name = "tools/list")
       => /\ last'.ok
          /\ last'.envelope.tools = ToolCatalog
          /\ last'.sent = 0
          /\ sessions' = sessions
          /\ pending' = pending
          /\ log' = log]_vars

\* The capability list was returned while a call was in flight.
C22_Witness ==
  /\ last.name = "tools/list"
  /\ last.ok
  /\ pending # {}

(***************************************************************************)
(* C26.  As claimed: with a MAX_RESULTS text that is not a number,         *)
(* loadConfig does not fail (the rest of the environment being valid) and  *)
(* gives maxResults 10; with a number outside 1..100 it fails with         *)
(* 'Configuration validation failed'.                                      *)
(***************************************************************************)
Given(v) == v.set /\ v.chars # <<>>

C26_MaxResultsEnv ==
  (startup.loaded /\ Given(environment.MAX_RESULTS))
    => LET n == ParseInt(environment.MAX_RESULTS.chars)
       IN /\ (IsNaN(n) /\ environment.KNOWLEDGE_BASE_ID # Undef)
               => startup.ok /\ startup.config.maxResults = Num(10)
          /\ (~IsNaN(n) /\ (n[2] < 1 \/ n[2] > 100))
               => /\ ~startup.ok
                  /\ startup.error.message[1] = "Configuration validation failed:"

(***************************************************************************)
(* C24.  Session handles are never destroyed: every handle that was ever   *)
(* written to the registry, by create_session or by a generate response    *)
(* with a token, is in the registry in every later state, once.            *)
(***************************************************************************)
C24_HandlesPersist ==
  /\ \A j \in 1..Len(log) :
       (log[j].op = "create" \/ Truthy(log[j].tok)) => Has(sessions, log[j].key)
  /\ OneEntryPerHandle

\* "energy" got a token, then a response without one, and is still there
\* next to a second handle.
C24_Witness ==
  /\ Len(sessions) = 2
  /\ Get(sessions, Str("energy")) = Str("tok-1")
  /\ \E j, k \in 1..Len(log) :
       /\ j < k
       /\ log[j].key = Str("energy") /\ log[j].tok = Str("tok-1")
       /\ log[k].key = Str("energy") /\ log[k].op = "generate" /\ ~Truthy(log[k].tok)

(***************************************************************************)
(* C25.  As claimed: a retrieve_knowledge call with maxResults = n,        *)
(* 1 <= n <= 100, asks the backend for at most n results: the              *)
(* numberOfResults of its request is n, not the configured default.        *)
(***************************************************************************)
C25_MaxResultsApplied ==
  \A c \in pending :
    (/\ IsRetrieve(c)
     /\ c.args.maxResults[1] = "number"
     /\ c.args.maxResults[2] >= 1
     /\ c.args.maxResults[2] <= 100)
      => c.req.numberOfResults = c.args.maxResults[2]

(***************************************************************************)
(* C27.  As claimed: the gateway defaults every optional backend field. A  *)
(* normalized retrieve result has a defined score, locator and metadata, a *)
(* normalized generate response has its citations, and a retrieve response *)
(* without result list is normalized to the empty sequence.                *)
(***************************************************************************)
C27_DefaultedFields ==
  last.answer.kind = "response"
    => IF IsRetrieve(last)
         THEN LET results == RetrieveResult(last.answer.value)
              IN /\ ~last.answer.value.present => results = <<>>
                 /\ \A i \in 1..Len(results) :
                      /\ results[i].score # Undef
                      /\ results[i].uri # Undef
                      /\ results[i].metadata # Undef
         ELSE LET result == GenerateResult(last.answer.value)
              IN /\ result.citations.present
                 /\ \A i \in 1..Len(result.citations.items) :
                      \A j \in 1..Len(result.citations.items[i].refs) :
                        /\ result.citations.items[i].refs[j].uri # Undef
                        /\ result.citations.items[i].refs[j].metadata # Undef

(***************************************************************************)
(* C28.  A retrieve_and_generate call whose backend request fails leaves   *)
(* the registry as it was: the handle it named keeps its token or stays    *)
(* unregistered, a later call on that handle resolves to the same          *)
(* continuation as before, and nothing is recorded for the failed call.    *)
(***************************************************************************)
C28_FailedGenerateFrame ==
  [][(last' # last /\ IsGenerate(last') /\ last'.answer.kind = "error")
       => /\ ~last'.ok
          /\ sessions' = sessions
          /\ log' = log
          /\ ActualSessionId(sessions', last'.args.sessionId)
               = ActualSessionId(sessions, last'.args.sessionId)
          /\ Has(sessions', last'.args.sessionId) = Has(sessions, last'.args.sessionId)]_vars

\* A generate call on "energy" failed while "energy" held a token.
C28_Witness ==
  /\ IsGenerate(last)
  /\ last.answer.kind = "error"
  /\ last.args.sessionId = Str("energy")
  /\ Truthy(Get(sessions, Str("energy")))

(***************************************************************************)
(* C29.  A successful retrieve_and_generate response that carries no token *)
(* (absent or empty) leaves the registry unchanged: a registered handle    *)
(* keeps its token, and a sessionId that was not registered is still not   *)
(* registered.                                                             *)
(***************************************************************************)
C29_NoTokenFrame ==
  [][(/\ last' # last
      /\ IsGenerate(last')
      /\ last'.ok
      /\ ~Truthy(last'.answer.value.sessionId))
       => /\ sessions' = sessions
          /\ Has(sessions', last'.args.sessionId) = Has(sessions, last'.args.sessionId)
          /\ Get(sessions', last'.args.sessionId) = Get(sessions, last'.args.sessionId)]_vars

\* A response with an empty token arrived for "energy", which held a token
\* and keeps it.
C29_Witness ==
  /\ IsGenerate(last)
  /\ last.ok
  /\ last.answer.value.sessionId = Str("")
  /\ last.args.sessionId = Str("energy")
  /\ Truthy(Get(sessions, Str("energy")))

(***************************************************************************)
(* C30.  A successful retrieve_and_generate call with sessionId h changes  *)
(* at most the registry entry of h: the other handles keep their tokens    *)
(* and their order, and the calls still in flight keep the continuation    *)
(* they were started with.                                                 *)
(***************************************************************************)
Others(m, h) == SelectSeq(m, LAMBDA e : e.id # h)

C30_OtherHandlesFrame ==
  [][(/\ last' # last
      /\ IsGenerate(last')
      /\ last'.ok
      /\ Truthy(last'.args.sessionId))
       => /\ Others(sessions', last'.args.sessionId)
               = Others(sessions, last'.args.sessionId)
          /\ Len(sessions') <= Len(sessions) + 1
          /\ \A i \in 1..Len(sessions) : sessions'[i].id = sessions[i].id
          /\ pending' \subseteq pending]_vars

\* A response with a token arrived for "energy" while another handle held
\* a token and a call on that other handle was in flight.
C30_Witness ==
  /\ IsGenerate(last)
  /\ last.ok
  /\ last.args.sessionId = Str("energy")
  /\ Truthy(last.answer.value.sessionId)
  /\ \E i \in 1..Len(sessions) :
       sessions[i].id # Str("energy") /\ Truthy(sessions[i].tok)
  /\ pending # {}

(***************************************************************************)
(* C23.  Every call runs to completion or failure: if the backend settles  *)
(* every request it receives, a call in flight eventually produces its     *)
(* outcome.  A call leaves the set of calls in flight only by producing    *)
(* its outcome (it is never cancelled), and whatever other calls are in    *)
(* flight, the step that settles it is enabled (it is never blocked).      *)
(***************************************************************************)
InFlight(id) == \E c \in pending : c.id = id

C23_RunsToCompletion ==
  /\ \A id \in 1..MaxCalls :
       InFlight(id) ~> (last.id = id /\ last.sent = 1 /\ ~InFlight(id))
  /\ [][\A c \in pending :
          c \notin pending' => (last'.id = c.id /\ last'.name = c.name)]_vars
  /\ [](\A id \in 1..MaxCalls : InFlight(id) => ENABLED Settle(id))

\* The first call has produced its outcome while the second is in flight.
C23_Witness ==
  /\ last.id = 1
  /\ last.sent = 1
  /\ InFlight(2)

(***************************************************************************)
(* C31.  Every value stored in the registry is the empty token or a token  *)
(* that the backend returned in an earlier successful generate response;   *)
(* a handle or sessionId supplied by a client is never stored as a token.  *)
(***************************************************************************)
\* Every handle a client supplies as sessionId or sessionName.
ClientStrings ==
  Handles
  \cup {a.sessionId : a \in SessionArgsFor("retrieve_and_generate")}
  \cup {a.sessionName : a \in SessionArgsFor("create_session")}

C31_TokensFromBackend ==
  \A i \in 1..Len(sessions) :
    /\ \/ sessions[i].tok = Str("")
       \/ \E j \in 1..Len(log) :
            log[j].op = "generate" /\ log[j].tok = sessions[i].tok
    /\ Truthy(sessions[i].tok) => sessions[i].tok \notin ClientStrings

\* "energy" holds a backend token next to a session that holds none.
C31_Witness ==
  /\ Get(sessions, Str("energy")) = Str("tok-2")
  /\ \E i \in 1..Len(sessions) : sessions[i].tok = Str("")
  /\ pending = {}

(***************************************************************************)
(* C32.  A retrieve_and_generate call with sessionId h that starts while   *)
(* the latest write on h is a create_session (h holds the empty token)     *)
(* sends a request with no session continuation: neither the empty token   *)
(* nor the handle h is sent.                                               *)
(***************************************************************************)
WritesBefore(h, n) == {j \in Writes(h) : j <= n}

C32_EmptyTokenOmitted ==
  \A c \in pending :
    (/\ IsGenerate(c)
     /\ Truthy(c.args.sessionId)
     /\ WritesBefore(c.args.sessionId, c.at) # {}
     /\ log[Last(WritesBefore(c.args.sessionId, c.at))].op = "create")
      => /\ c.req.op = "generate"
         /\ c.req.token = Undef
         /\ c.cont = Str("")

\* A call on the freshly created "energy" is at the backend without token.
C32_Witness ==
  /\ Get(sessions, Str("energy")) = Str("")
  /\ \E c \in pending :
       /\ IsGenerate(c)
       /\ c.args.sessionId = Str("energy")
       /\ c.at >= 1
       /\ log[c.at].op = "create" /\ log[c.at].key = Str("energy")
       /\ c.req.token = Undef

(***************************************************************************)
(* C34.  If create_session(h) ran while a retrieve_and_generate call with  *)
(* sessionId h was in flight and that call then succeeds with token t, the *)
(* registry maps h to t: the later response overwrites the reset, and a    *)
(* list_sessions taken then reports h as active with token t.              *)
(***************************************************************************)
\* The latest write on h is a generate response whose call was in flight
\* when a create_session on h finished.
ResetOverwritten(h) ==
  /\ Writes(h) # {}
  /\ log[Last(Writes(h))].op = "generate"
  /\ \E k \in 1..Len(log) :
       /\ log[k].op = "create"
       /\ log[k].key = h
       /\ log[Last(Writes(h))].at < k
       /\ k < Last(Writes(h))

C34_ResponseAfterReset ==
  \A h \in Keys(sessions) :
    ResetOverwritten(h)
      => /\ Get(sessions, h) = log[Last(Writes(h))].tok
         /\ Truthy(Get(sessions, h))
         /\ (last.name = "list_sessions" /\ last.ok)
              => \E i \in 1..Len(last.envelope.sessions) :
                   /\ last.envelope.sessions[i].sessionId = h
                   /\ last.envelope.sessions[i].active = TRUE
                   /\ last.envelope.sessions[i].bedrockSessionId
                        = log[Last(Writes(h))].tok

\* "energy" was created again during a call that then brought tok-1, and
\* is listed as active.
C34_Witness ==
  /\ last.name = "list_sessions"
  /\ ResetOverwritten(Str("energy"))
  /\ Get(sessions, Str("energy")) = Str("tok-1")

(***************************************************************************)
(* C33.  The continuation a retrieve_and_generate call sends is the one    *)
(* resolved when the call starts: a call in flight on a handle h that was  *)
(* registered at its start carries the token h held then (nothing for the  *)
(* empty token), whatever was stored for h since; so two calls on h        *)
(* started with no write on h between them carry the same token, and       *)
(* neither carries the token the other one produced.                       *)
(***************************************************************************)
TokenAtStart(c) == log[Last(WritesBefore(c.args.sessionId, c.at))].tok

StartedRegistered(c) ==
  /\ IsGenerate(c)
  /\ Truthy(c.args.sessionId)
  /\ WritesBefore(c.args.sessionId, c.at) # {}

C33_ResolvedAtStart ==
  /\ \A c \in pending :
       StartedRegistered(c)
         => /\ c.cont = TokenAtStart(c)
            /\ c.req.token = (IF c.cont = Str("") THEN Undef ELSE c.cont)
  /\ \A c, d \in pending :
       (/\ StartedRegistered(c) /\ StartedRegistered(d)
        /\ c.args.sessionId = d.args.sessionId
        /\ WritesBefore(c.args.sessionId, c.at) = WritesBefore(d.args.sessionId, d.at))
         => c.req.token = d.req.token

\* Two calls on "energy" started while it held tok-2; the first came back
\* with tok-1, and the second is still in flight with tok-2.
C33_Witness ==
  /\ IsGenerate(last)
  /\ last.ok
  /\ last.args.sessionId = Str("energy")
  /\ last.cont = Str("tok-2")
  /\ Get(sessions, Str("energy")) = Str("tok-1")
  /\ \E c \in pending :
       /\ c.args.sessionId = Str("energy")
       /\ StartedRegistered(c)
       /\ c.req.token = Str("tok-2")

====
